---- MODULE Spec2Model ----
(***************************************************************************)
(* Authorization and token lifecycle of docs-mcp (services/google.go and   *)
(* the start-up part of main): the two sync.OnceValue service getters,     *)
(* credential resolution, the token file, the manual-code flow and the     *)
(* callback-server flow with its listener, handler goroutines, channels    *)
(* and select.                                                             *)
(***************************************************************************)
EXTENDS Integers, Sequences, FiniteSets, Bags, TLC

\* ------------------------------------------------------------------ bounds
\* goroutines of tool handlers that call the getters (caller 0 is main)
NumCallers == 2
\* HTTP requests that reach the callback listener during one process run
MaxRequests == 2
\* largest value time.Now().Unix() takes
MaxClock == 1

Getters == {"GoogleDocsClient", "GoogleDriveClient"}
Callers == 0..NumCallers
ToolCallers == 1..NumCallers

\* ------------------------------------------------------------------ state
VARIABLES
    env,        \* os.Getenv: the process environment
    httpPort,   \* the -http_port flag: "" means stdio mode
    credFile,   \* the credential / client-secrets file named by the environment
    tokenFile,  \* the token file: content and permission bits
    stdout,     \* what the authorization flows printed: URLs and prompts
    alive,      \* FALSE once log.Fatal / os.Exit / an unrecovered panic ended the process
    exitMsg,    \* the message of the log.Fatalf that ended the process
    mainPc,     \* position of main
    once,       \* per getter: the sync.OnceValue cell
    pc,         \* per caller: position in the getter call
    getter,     \* per caller: the getter being called
    observed,   \* the results the calls of each getter have returned so far
    tok,        \* per caller: the token held by getHTTPClient
    att,        \* per caller: the callback-flow attempt of getTokenFromWebWithCallback
    authCode,   \* per caller: the code read by getTokenFromWeb
    mux,        \* http.DefaultServeMux: who registered "/oauth/callback"
    nreq,       \* requests the listener has accepted so far
    sends,      \* the handler goroutines that stand at their channel send (a bag)
    now,        \* the last value read from the clock
    hist        \* history: counts of effects, per getter and per caller

vars == <<env, httpPort, credFile, tokenFile, stdout, alive, exitMsg, mainPc, once,
          pc, getter, observed, tok, att, authCode, mux, nreq, sends, now, hist>>

\* ------------------------------------------------------------------ values
\* a time.Time: the wall-clock instant, and the monotonic clock reading that a value
\* made by time.Now() carries (0: none)
Time(wall, mono) == [wall |-> wall, mono |-> mono]

\* an oauth2.Token: AccessToken, TokenType, RefreshToken, Expiry; issuer tells which
\* exchange of this run issued the access value (-1: none of them)
NoToken ==
    [access |-> "", tokenType |-> "", refresh |-> "", expiry |-> Time(0, 0),
     issuer |-> -1]
CachedToken ==
    [access |-> "ya29.cached", tokenType |-> "Bearer", refresh |-> "1//cached",
     expiry |-> Time(1, 0), issuer |-> -1]
IssuedToken(c) ==
    [access |-> "ya29.issued", tokenType |-> "Bearer", refresh |-> "1//issued",
     expiry |-> Time(2, 1), issuer |-> c]

\* t1.Equal(t2) of two time.Time values: the same instant
TimeEqual(t1, t2) == t1.wall = t2.wall

\* two tokens that agree in access value, token type, refresh value and expiry
SameToken(t1, t2) ==
    /\ t1.access = t2.access /\ t1.tokenType = t2.tokenType
    /\ t1.refresh = t2.refresh /\ TimeEqual(t1.expiry, t2.expiry)
    /\ t1.issuer = t2.issuer

\* permission bits 0600, the mode saveToken passes to os.OpenFile
Perm0600 == 384

\* a key that a JSON object does not have
Absent == "<absent>"

\* the bytes of a Go string are written as characters; BadByte stands for a byte
\* that is not valid UTF-8 (0xff) and Replacement for the rune U+FFFD
BadByte == "~"
Replacement == "?"

\* encoding/json writing a string value: a byte that is not valid UTF-8 becomes
\* U+FFFD, a backslash is doubled, and < is written as its \u escape
RECURSIVE Quote(_)
Quote(str) ==
    IF str = "" THEN ""
    ELSE LET head == SubSeq(str, 1, 1)
             rest == SubSeq(str, 2, Len(str))
         IN (CASE head = BadByte -> Replacement
               [] head = "\\" -> "\\\\"
               [] head = "<" -> "\\u003c"
               [] OTHER -> head) \o Quote(rest)

\* encoding/json reading a string value: the escapes are undone
RECURSIVE Unquote(_)
Unquote(txt) ==
    IF txt = "" THEN ""
    ELSE IF Len(txt) >= 6 /\ SubSeq(txt, 1, 6) = "\\u003c"
    THEN "<" \o Unquote(SubSeq(txt, 7, Len(txt)))
    ELSE IF Len(txt) >= 2 /\ SubSeq(txt, 1, 2) = "\\\\"
    THEN "\\" \o Unquote(SubSeq(txt, 3, Len(txt)))
    ELSE SubSeq(txt, 1, 1) \o Unquote(SubSeq(txt, 2, Len(txt)))

\* the tokens handed to saveToken in the round trip of saveToken and tokenFromFile
RtTokens ==
    [access : {"", "ya29.a", "a<b\\c", "ya" \o BadByte},
     tokenType : {"", "Bearer"},
     refresh : {"", "1//r<"},
     expiry : {Time(w, m) : w \in {-1, 0, 1}, m \in {0, 1}},
     issuer : {-1}]

\* the token that the token endpoint returns for the refresh value of t: a new
\* access value and expiry; the refresh value is kept
RefreshedToken(t) ==
    [t EXCEPT !.access = "ya29.refreshed", !.expiry = Time(t.expiry.wall + 1, 1)]

\* every string that a token of the program carries in a field
TokenTexts ==
    UNION {{t.access, t.tokenType, t.refresh} :
             t \in RtTokens \cup {NoToken, CachedToken, RefreshedToken(CachedToken)}
                    \cup {IssuedToken(c) : c \in Callers}
                    \cup {RefreshedToken(IssuedToken(c)) : c \in Callers}}

\* what the decoder makes of each text the encoder writes for such a string
Unquoted == [txt \in {Quote(str) : str \in TokenTexts} |-> Unquote(txt)]

\* the struct tag omitempty on a string field: the key is left out for ""
OmitEmpty(str) == IF str = "" THEN Absent ELSE Quote(str)

\* time.Time.MarshalJSON: an instant whose year is outside 0..9999 (a negative
\* wall value here) has no RFC 3339 text, and Encode returns an error
Representable(t) == t.expiry.wall >= 0

\* faulty variant of EncodeToken: the object of a zero token is written
EncodeBlank(t) ==
    [access_token |-> "", token_type |-> Absent, refresh_token |-> Absent,
     expiry |-> 0, issuer |-> -1]

\* faulty variant of EncodeToken: the refresh value is not written
EncodeNoRefresh(t) ==
    [access_token |-> Quote(t.access), token_type |-> OmitEmpty(t.tokenType),
     refresh_token |-> Absent, expiry |-> t.expiry.wall, issuer |-> t.issuer]

\* json.NewEncoder(f).Encode(token): the JSON object written for a token; the
\* expiry is written as RFC 3339 text, which has no monotonic clock reading
EncodeToken(t) ==
    [access_token |-> Quote(t.access), token_type |-> OmitEmpty(t.tokenType),
     refresh_token |-> OmitEmpty(t.refresh), expiry |-> t.expiry.wall,
     issuer |-> t.issuer]

\* a string field of the decoded struct: "" when the object has no such key
FieldOf(v) == IF v = Absent THEN "" ELSE Unquoted[v]

\* json.NewDecoder(f).Decode(tok): the token read from a JSON object
DecodeToken(j) ==
    [access |-> Unquoted[j.access_token], tokenType |-> FieldOf(j.token_type),
     refresh |-> FieldOf(j.refresh_token), expiry |-> Time(j.expiry, 0),
     issuer |-> j.issuer]

\* a file: not there, there but not JSON (left by someone else with mode 0644 = 420),
\* cut to length 0, or a JSON object
Missing == [kind |-> "missing", json |-> EncodeToken(NoToken), perm |-> 0]
Garbage == [kind |-> "garbage", json |-> EncodeToken(NoToken), perm |-> 420]
Truncated(perm) == [kind |-> "empty", json |-> EncodeToken(NoToken), perm |-> perm]
FileOf(t, perm) == [kind |-> "json", json |-> EncodeToken(t), perm |-> perm]

\* what a getter call gives its caller: a service handle, or the panic of the cell
NilResult == [kind |-> "nil", getter |-> "", by |-> -1, token |-> NoToken]
PanicResult == [kind |-> "panic", getter |-> "", by |-> -1, token |-> NoToken]
Handle(g, c, t) == [kind |-> "handle", getter |-> g, by |-> c, token |-> t]

\* the locals of one getTokenFromWebWithCallback call: state, server, the two
\* channels (chan[k] is the buffer of codeChan / errorChan), the value select
\* received; and its history: which outcome was delivered first, which kinds were
\* delivered before the wait resolved, which one the wait took, how many sends
\* on each channel completed, whether a state-mismatch error was sent before the
\* wait resolved, whether a code was sent for a request without the exact state;
\* the clock value the state was made from, whether the select found nothing ready
\* and blocked, whether the exchange succeeded
EmptyAttempt ==
    [state |-> "", addr |-> "", chan |-> [code |-> <<>>, error |-> <<>>],
     srv |-> "none", shutdown |-> 0, got |-> "", exchanges |-> 0,
     startedAt |-> -1, waited |-> FALSE, authorized |-> FALSE,
     first |-> "none", delivered |-> {}, chosen |-> "none",
     fired |-> [code |-> 0, error |-> 0], badBefore |-> FALSE, forged |-> FALSE]

\* a handler goroutine at its send: the channel, the value, and whether the
\* request carried exactly the attempt's state
HandlerAt(ch, val, exact) == [ch |-> ch, val |-> val, exact |-> exact]

\* history of one getter: how often its body ran, what the body did, whether the
\* token file held a JSON token when the body loaded it, whether the client of its
\* handle has refreshed its token, whether the user entered a blank line at the
\* code prompt, and what fmt.Scan read at the confirmation prompt
NoEffects ==
    [bodyRuns |-> 0, envReads |-> 0, credReads |-> 0, tokReads |-> 0, tokWrites |-> 0,
     flows |-> 0, urls |-> 0, stdinReads |-> 0, listeners |-> 0, exchanges |-> 0,
     loaded |-> FALSE, refreshed |-> FALSE, blankCode |-> FALSE, answer |-> ""]

NoHist == [per |-> [g \in Getters |-> NoEffects], notFound |-> FALSE]

\* the results each getter has returned, and whether a call has returned the stored
\* handle of a construction that had succeeded before
NoneObserved == [results |-> [g \in Getters |-> {}], later |-> FALSE]

\* ------------------------------------------------------------------ Init
\* the configurations the process is started in; OAUTH_USE_CALLBACK=1 is set by the
\* user in stdio mode only ("true" is what main sets on a first run, in both modes)
Init ==
    /\ env \in [GOOGLE_APPLICATION_CREDENTIALS : {"", "sa.json"},
                GOOGLE_CLIENT_SECRETS : {"", "cs.json"},
                OAUTH_USE_CALLBACK : {"", "1"},
                OAUTH_CALLBACK_PORT : {""}]
    /\ httpPort \in {"", "9090"}
    /\ env.OAUTH_USE_CALLBACK = "1" => httpPort = ""
    /\ credFile \in {"unreadable", "malformed", "ok"}
    /\ tokenFile \in {Missing, Garbage, FileOf(CachedToken, Perm0600)}
    /\ stdout = {}
    /\ alive = TRUE
    /\ exitMsg = ""
    /\ mainPc = "start"
    /\ once = [g \in Getters |-> [done |-> FALSE, locked |-> FALSE, valid |-> FALSE,
                                  result |-> NilResult]]
    /\ pc = [c \in Callers |-> "idle"]
    /\ getter = [c \in Callers |-> "GoogleDriveClient"]
    /\ observed = NoneObserved
    /\ tok = [c \in Callers |-> NoToken]
    /\ att = [c \in Callers |-> EmptyAttempt]
    /\ authCode = [c \in Callers |-> ""]
    /\ mux = -1
    /\ nreq = 0
    /\ sends = EmptyBag
    /\ now = 0
    /\ hist = NoHist

\* faulty variant of Fatal: the message is logged and the process goes on
Logged(msg) ==
    /\ alive' = alive
    /\ exitMsg' = msg

\* log.Fatalf / os.Exit(1): the process ends, every goroutine with it
Fatal(msg) ==
    /\ alive' = FALSE
    /\ exitMsg' = msg

\* ------------------------------------------------------------------ main
\* faulty variant of MainMissingEnvs: main never finds a variable missing
MainMissingNever(e) == FALSE

\* main's check of the two configured paths (hasServiceAccount, hasClientSecrets)
MainMissingEnvs(e) ==
    e.GOOGLE_APPLICATION_CREDENTIALS = "" /\ e.GOOGLE_CLIENT_SECRETS = ""

MainUsesServiceAccount(e) == e.GOOGLE_APPLICATION_CREDENTIALS # ""

\* os.Stat(tokenPath) reports that the token file does not exist
IsNotExist(f) == f.kind = "missing"

\* main up to the start of serving: configuration check, first-run detection
MainStartup ==
    /\ alive /\ mainPc = "start"
    /\ IF MainMissingEnvs(env)
       THEN /\ Fatal("Configuration Error: Missing required environment variables")
            /\ UNCHANGED <<env, mainPc>>
       ELSE /\ env' = IF ~MainUsesServiceAccount(env) /\ IsNotExist(tokenFile)
                      THEN [env EXCEPT !.OAUTH_USE_CALLBACK = "true"]
                      ELSE env
            /\ mainPc' = IF httpPort # "" THEN "serving" ELSE "eager"
            /\ UNCHANGED <<alive, exitMsg>>
    /\ UNCHANGED <<httpPort, credFile, tokenFile, stdout, once, pc, getter, observed, tok,
                   att, authCode, mux, nreq, sends, now, hist>>

\* ------------------------------------------------------------------ sync.OnceValue
\* faulty variant of OnceDone: the done flag is never seen set
OnceNeverDone(o) == FALSE

\* Once.Do's fast path: done was already stored
OnceDone(o) == o.done

\* faulty variant of MutexFree: the mutex excludes nobody
MutexFreeAlways(o) == TRUE

\* Once.doSlow: o.m.Lock() can be taken
MutexFree(o) == ~o.locked

\* the returned function's tail: if !valid { panic(p) }; return result
OnceResult(o) == IF o.valid THEN o.result ELSE PanicResult

\* the call returns r to its caller; stored tells that r is the stored result
Returns(c, g, r, stored) ==
    /\ observed' = [results |-> [observed.results EXCEPT ![g] = @ \cup {r}],
                    later |-> observed.later \/ (stored /\ r.kind = "handle")]
    /\ getter' = [getter EXCEPT ![c] = "GoogleDriveClient"]

\* the call of a getter up to once.Do's fast path: the stored result is returned,
\* or the caller goes to the slow path
Enter(c, g) ==
    IF OnceDone(once[g])
    THEN /\ Returns(c, g, OnceResult(once[g]), TRUE)
         /\ pc' = pc
    ELSE /\ pc' = [pc EXCEPT ![c] = "once_lock"]
         /\ getter' = [getter EXCEPT ![c] = g]
         /\ observed' = observed

\* faulty variant of MainEager: main goes on to ServeStdio without the getter call
MainEagerSkipped ==
    /\ alive /\ mainPc = "eager" /\ pc[0] = "idle"
    /\ mainPc' = "eager_wait"
    /\ UNCHANGED <<env, httpPort, credFile, tokenFile, stdout, alive, exitMsg, once, pc,
                   getter, observed, tok, att, authCode, mux, nreq, sends, now, hist>>

\* stdio mode: main calls services.GoogleDriveClient() before server.ServeStdio
MainEager ==
    /\ alive /\ mainPc = "eager" /\ pc[0] = "idle"
    /\ mainPc' = "eager_wait"
    /\ Enter(0, "GoogleDriveClient")
    /\ UNCHANGED <<env, httpPort, credFile, tokenFile, stdout, alive, exitMsg, once,
                   tok, att, authCode, mux, nreq, sends, now, hist>>

\* server.ServeStdio: the MCP server starts serving tool requests
MainServe ==
    /\ alive /\ mainPc = "eager_wait" /\ pc[0] = "idle"
    /\ mainPc' = "serving"
    /\ UNCHANGED <<env, httpPort, credFile, tokenFile, stdout, alive, exitMsg, once, pc,
                   getter, observed, tok, att, authCode, mux, nreq, sends, now, hist>>

\* a tool handler calls a getter: services.GoogleDocsClient() / GoogleDriveClient()
Call(c, g) ==
    /\ alive /\ mainPc = "serving" /\ c \in ToolCallers /\ pc[c] = "idle"
    /\ Enter(c, g)
    /\ UNCHANGED <<env, httpPort, credFile, tokenFile, stdout, alive, exitMsg, mainPc,
                   once, tok, att, authCode, mux, nreq, sends, now, hist>>

\* ------------------------------------------------------------------ the getter body
\* faulty variant of LoadGoogleCredentials: the client secrets take precedence
LoadClientSecretsFirst(e) ==
    [CredentialsPath |-> e.GOOGLE_APPLICATION_CREDENTIALS,
     ClientSecretsPath |-> e.GOOGLE_CLIENT_SECRETS,
     UseServiceAccount |-> e.GOOGLE_CLIENT_SECRETS = "",
     fatal |-> e.GOOGLE_APPLICATION_CREDENTIALS = "" /\ e.GOOGLE_CLIENT_SECRETS = ""]

\* loadGoogleCredentials: the AuthConfig, or the log.Fatal when neither path is set
LoadGoogleCredentials(e) ==
    [CredentialsPath |-> e.GOOGLE_APPLICATION_CREDENTIALS,
     ClientSecretsPath |-> e.GOOGLE_CLIENT_SECRETS,
     UseServiceAccount |-> e.GOOGLE_APPLICATION_CREDENTIALS # "",
     fatal |-> e.GOOGLE_APPLICATION_CREDENTIALS = "" /\ e.GOOGLE_CLIENT_SECRETS = ""]

\* the body up to the credentials: loadGoogleCredentials, ioutil.ReadFile,
\* google.CredentialsFromJSON / google.ConfigFromJSON (all of them read only what no
\* step changes after main's start-up)
Resolve(c) ==
    LET config == LoadGoogleCredentials(env)
        g == getter[c]
    IN
    IF config.fatal
    THEN /\ Fatal("Either GOOGLE_APPLICATION_CREDENTIALS or GOOGLE_CLIENT_SECRETS is required")
         /\ hist' = [hist EXCEPT !.per[g].bodyRuns = @ + 1, !.per[g].envReads = @ + 1]
         /\ pc' = pc
    ELSE /\ hist' = [hist EXCEPT !.per[g].bodyRuns = @ + 1, !.per[g].envReads = @ + 1,
                                 !.per[g].credReads = @ + 1]
         /\ IF credFile = "unreadable"
            THEN /\ Fatal("Failed to read credentials file")
                 /\ pc' = pc
            ELSE IF credFile = "malformed"
            THEN /\ Fatal("Failed to create credentials from JSON")
                 /\ pc' = pc
            ELSE /\ pc' = [pc EXCEPT ![c] = IF config.UseServiceAccount
                                             THEN "newservice" ELSE "tokload"]
                 /\ UNCHANGED <<alive, exitMsg>>

\* Once.doSlow: take the mutex, check done again; if it is still unset start the
\* body, which runs up to the credentials
OnceLock(c) ==
    /\ alive /\ pc[c] = "once_lock"
    /\ MutexFree(once[getter[c]])
    /\ IF OnceDone(once[getter[c]])
       THEN /\ Returns(c, getter[c], OnceResult(once[getter[c]]), TRUE)
            /\ pc' = [pc EXCEPT ![c] = "idle"]
            /\ UNCHANGED <<once, hist, alive, exitMsg>>
       ELSE /\ once' = [once EXCEPT ![getter[c]].locked = TRUE]
            /\ Resolve(c)
            /\ UNCHANGED <<getter, observed>>
    /\ UNCHANGED <<env, httpPort, credFile, tokenFile, stdout, mainPc,
                   tok, att, authCode, mux, nreq, sends, now>>

\* faulty variant of TokenFromFile: every load reports an error
TokenFromFileFails(f) == [err |-> TRUE, token |-> NoToken]

\* tokenFromFile: os.Open fails, or Decode of the content
TokenFromFile(f) ==
    IF f.kind = "json"
    THEN [err |-> FALSE, token |-> DecodeToken(f.json)]
    ELSE [err |-> TRUE, token |-> NoToken]

\* faulty variant of UseCallback: only "true" selects the callback server
UseCallbackTrueOnly(e) == e.OAUTH_USE_CALLBACK = "true"

\* getHTTPClient's test of OAUTH_USE_CALLBACK
UseCallback(e) == e.OAUTH_USE_CALLBACK = "true" \/ e.OAUTH_USE_CALLBACK = "1"

\* getHTTPClient: load the token file; on error choose the authorization flow
TokLoad(c) ==
    /\ alive /\ pc[c] = "tokload"
    /\ LET r == TokenFromFile(tokenFile) IN
       IF r.err
       THEN /\ pc' = [pc EXCEPT ![c] = IF UseCallback(env) THEN "cb_setup" ELSE "manual"]
            /\ hist' = [hist EXCEPT !.per[getter[c]] =
                            [@ EXCEPT !.envReads = @ + 1, !.tokReads = @ + 1,
                                      !.flows = @ + 1,
                                      !.loaded = tokenFile.kind = "json"]]
            /\ tok' = tok
       ELSE /\ pc' = [pc EXCEPT ![c] = "newservice"]
            /\ hist' = [hist EXCEPT !.per[getter[c]] =
                            [@ EXCEPT !.envReads = @ + 1, !.tokReads = @ + 1,
                                      !.loaded = tokenFile.kind = "json"]]
            /\ tok' = [tok EXCEPT ![c] = r.token]
    /\ UNCHANGED <<env, httpPort, credFile, tokenFile, stdout, alive, exitMsg, mainPc,
                   once, getter, observed, att, authCode, mux, nreq, sends, now>>

\* faulty variant of AfterFlow: the client is built without saveToken
AfterFlowNoSave == "newservice"

\* getHTTPClient after the flow returned a token: saveToken(tokenPath, token)
AfterFlow == "save_open"

\* saveToken, first half: os.OpenFile(path, O_RDWR|O_CREATE|O_TRUNC, 0600)
SaveOpen(c) ==
    /\ alive /\ pc[c] = "save_open"
    /\ \/ /\ Fatal("Unable to cache oauth token")
          /\ UNCHANGED <<tokenFile, pc>>
       \/ /\ tokenFile' = Truncated(IF tokenFile.kind = "missing" THEN Perm0600
                                     ELSE tokenFile.perm)
          /\ pc' = [pc EXCEPT ![c] = "save_encode"]
          /\ UNCHANGED <<alive, exitMsg>>
    /\ UNCHANGED <<env, httpPort, credFile, stdout, mainPc, once, getter, observed, tok, att,
                   authCode, mux, nreq, sends, now, hist>>

\* saveToken, second half: json.NewEncoder(f).Encode(token)
SaveEncode(c) ==
    /\ alive /\ pc[c] = "save_encode"
    /\ \/ /\ Fatal("Unable to encode token to file")
          /\ UNCHANGED <<tokenFile, pc, hist>>
       \/ /\ Representable(tok[c])
          /\ tokenFile' = [tokenFile EXCEPT !.kind = "json", !.json = EncodeToken(tok[c])]
          /\ pc' = [pc EXCEPT ![c] = "newservice"]
          /\ hist' = [hist EXCEPT !.per[getter[c]].tokWrites = @ + 1]
          /\ UNCHANGED <<alive, exitMsg>>
    /\ UNCHANGED <<env, httpPort, credFile, stdout, mainPc, once, getter, observed, tok, att,
                   authCode, mux, nreq, sends, now>>

\* config.Client / docs.NewService / drive.NewService, then the body returns:
\* the cell stores the result, sets done and releases the mutex
NewService(c) ==
    /\ alive /\ pc[c] = "newservice"
    /\ \/ /\ Fatal("Failed to create Google service")
          /\ UNCHANGED <<once, observed, getter, pc, tok>>
       \/ /\ LET h == Handle(getter[c], c, tok[c]) IN
             /\ once' = [once EXCEPT ![getter[c]] =
                             [done |-> TRUE, locked |-> FALSE, valid |-> TRUE, result |-> h]]
             /\ Returns(c, getter[c], h, FALSE)
          /\ pc' = [pc EXCEPT ![c] = "idle"]
          /\ tok' = [tok EXCEPT ![c] = NoToken]
          /\ UNCHANGED <<alive, exitMsg>>
    /\ UNCHANGED <<env, httpPort, credFile, tokenFile, stdout, mainPc, att,
                   authCode, mux, nreq, sends, now, hist>>

\* strings.HasPrefix
HasPrefix(s, p) == Len(s) >= Len(p) /\ SubSeq(s, 1, Len(p)) = p

\* ------------------------------------------------------------------ channels
\* make(chan string, 1), make(chan error, 1)
ChanCap == 1

\* the foreground goroutine is blocked in the select, with nothing received yet
Parked(c) == pc[c] = "cb_parked"

\* a send `ch <- val` on a channel of attempt c can complete: a receiver waits in
\* the select, or the buffer has room
CanSend(c, ch) == Parked(c) \/ Len(att[c].chan[ch]) < ChanCap

\* the attempt after the send completed: handed to the waiting select, which is
\* thereby resolved, or put in the buffer
AfterSend(c, ch, val, exact) ==
    LET a == att[c]
        early == a.chosen = "none"
        b == [a EXCEPT !.fired[ch] = @ + 1,
                       !.first = IF @ = "none" THEN ch ELSE @,
                       !.delivered = IF early THEN @ \cup {ch} ELSE @,
                       !.badBefore = @ \/ (early /\ ~exact),
                       !.forged = @ \/ (ch = "code" /\ ~exact)]
    IN IF Parked(c)
       THEN [b EXCEPT !.got = val, !.chosen = ch]
       ELSE [b EXCEPT !.chan[ch] = Append(@, val)]

\* faulty variant of PcAfterSend: the hand-off does not wake the parked goroutine
PcAfterSendLost(c, ch) == pc

\* the foreground position after a send: a parked select wakes up in the case of ch
PcAfterSend(c, ch) ==
    IF Parked(c) THEN [pc EXCEPT ![c] = "cb_got_" \o ch] ELSE pc

\* ------------------------------------------------------------------ callback flow
\* fmt.Sprintf("state-%d", time.Now().Unix())
GenState(t) == "state-" \o ToString(t)

\* OAUTH_CALLBACK_PORT, default "8080"
CallbackPort(e) == IF e.OAUTH_CALLBACK_PORT = "" THEN "8080" ELSE e.OAUTH_CALLBACK_PORT

\* http.Server{Addr: ":" + callbackPort}
ServerAddr(e) == ":" \o CallbackPort(e)

\* getTokenFromWebWithCallback up to the start of the server goroutine: port, state,
\* server, channels, http.HandleFunc (which panics on a second registration of the
\* pattern; the panic leaves the sync.OnceValue cell done and not valid), go func
CbSetup(c) ==
    /\ alive /\ pc[c] = "cb_setup"
    /\ \E t \in now..MaxClock :
        /\ now' = t
        /\ IF mux # -1
           THEN /\ att' = [att EXCEPT ![c].state = GenState(t), ![c].addr = ServerAddr(env),
                                      ![c].startedAt = t]
                /\ hist' = hist
                /\ once' = [once EXCEPT ![getter[c]] =
                               [done |-> TRUE, locked |-> FALSE, valid |-> FALSE,
                                result |-> NilResult]]
                /\ Returns(c, getter[c], PanicResult, FALSE)
                /\ pc' = [pc EXCEPT ![c] = "idle"]
                /\ IF c = 0 THEN Fatal("panic: http: multiple registrations")
                            ELSE UNCHANGED <<alive, exitMsg>>
                /\ mux' = mux
           ELSE /\ att' = [att EXCEPT ![c].state = GenState(t), ![c].addr = ServerAddr(env),
                                      ![c].startedAt = t, ![c].srv = "starting"]
                /\ hist' = [hist EXCEPT !.per[getter[c]].listeners = @ + 1]
                /\ mux' = c
                /\ pc' = [pc EXCEPT ![c] = "cb_select"]
                /\ UNCHANGED <<once, observed, getter, alive, exitMsg>>
    /\ UNCHANGED <<env, httpPort, credFile, tokenFile, stdout, mainPc, tok,
                   authCode, nreq, sends>>

\* server.ListenAndServe in the goroutine: the listener is bound, or binding fails
SrvListen(c) ==
    /\ alive /\ att[c].srv = "starting"
    /\ \E ok \in BOOLEAN :
         att' = [att EXCEPT ![c].srv = IF ok THEN "listening" ELSE "send_err"]
    /\ UNCHANGED <<env, httpPort, credFile, tokenFile, stdout, alive, exitMsg, mainPc,
                   once, pc, getter, observed, tok, authCode, mux, nreq, sends, now, hist>>

\* faulty variant of SrvSendErr: the goroutine ends without reporting the error
SrvDropsErr(c) ==
    /\ alive /\ att[c].srv = "send_err"
    /\ att' = [att EXCEPT ![c].srv = "exited"]
    /\ UNCHANGED <<env, httpPort, credFile, tokenFile, stdout, alive, exitMsg, mainPc,
                   once, pc, getter, observed, tok, authCode, mux, nreq, sends, now, hist>>

\* the goroutine's errorChan <- fmt.Errorf("callback server error: %v", err)
SrvSendErr(c) ==
    /\ alive /\ att[c].srv = "send_err"
    /\ CanSend(c, "error")
    /\ att' = [att EXCEPT ![c] = [AfterSend(c, "error", "callback server error", TRUE)
                                    EXCEPT !.srv = "exited"]]
    /\ pc' = PcAfterSend(c, "error")
    /\ UNCHANGED <<env, httpPort, credFile, tokenFile, stdout, alive, exitMsg, mainPc,
                   once, getter, observed, tok, authCode, mux, nreq, sends, now, hist>>

\* faulty variant of RouteMatches: the handler is given every path
RouteMatchesAll(path) == TRUE

\* the pattern registered on the DefaultServeMux
RouteMatches(path) == path = "/oauth/callback"

\* strings.ToLower on the prefix of a state value
FoldState(s) == IF HasPrefix(s, "STATE-") THEN "state-" \o SubSeq(s, 7, Len(s)) ELSE s

\* faulty variant of CallbackHandler: the states are compared without regard to case
CallbackHandlerFold(reqState, reqCode, state) ==
    IF FoldState(reqState) # FoldState(state)
    THEN [ch |-> "error", val |-> "invalid state parameter"]
    ELSE IF reqCode = ""
    THEN [ch |-> "error", val |-> "authorization code not found"]
    ELSE [ch |-> "code", val |-> reqCode]

\* faulty variant of CallbackHandler: the code is looked at before the state
CallbackHandlerCodeFirst(reqState, reqCode, state) ==
    IF reqCode = ""
    THEN [ch |-> "error", val |-> "authorization code not found"]
    ELSE IF reqState # state
    THEN [ch |-> "error", val |-> "invalid state parameter"]
    ELSE [ch |-> "code", val |-> reqCode]

\* the callback handler's decision: what it sends, and on which channel
CallbackHandler(reqState, reqCode, state) ==
    IF reqState # state
    THEN [ch |-> "error", val |-> "invalid state parameter"]
    ELSE IF reqCode = ""
    THEN [ch |-> "error", val |-> "authorization code not found"]
    ELSE [ch |-> "code", val |-> reqCode]

\* state parameters a request can carry: none, the attempt's state s, variants of
\* s in case and in whitespace, and the states of other seconds
ReqStates(s) ==
    {"", s, "STATE-" \o SubSeq(s, 7, Len(s)), s \o " "} \cup
    {GenState(t) : t \in 0..MaxClock}
ReqCodes == {"", "4/abc123"}
ReqPaths == {"/oauth/callback", "/favicon.ico"}

\* the handler goroutine of a request with reqState and reqCode, at its send
HandlerOf(reqState, reqCode, state) ==
    LET d == CallbackHandler(reqState, reqCode, state) IN
    HandlerAt(d.ch, d.val, reqState = state)

\* a request for the registered pattern reaches the listener: the handler goroutine
\* runs up to its channel send (the history notes a request for any other path)
RequestArrives(path) ==
    /\ alive /\ mux # -1 /\ att[mux].srv = "listening"
    /\ nreq < MaxRequests
    /\ RouteMatches(path)
    /\ nreq' = nreq + 1
    /\ \E h \in {HandlerOf(reqState, reqCode, att[mux].state) :
                    reqState \in ReqStates(att[mux].state), reqCode \in ReqCodes} :
         sends' = sends (+) SetToBag({h})
    /\ hist' = [hist EXCEPT !.notFound = @ \/ path # "/oauth/callback"]
    /\ UNCHANGED <<env, httpPort, credFile, tokenFile, stdout, alive, exitMsg, mainPc,
                   once, pc, getter, observed, tok, att, authCode, mux, now>>

\* a request for any other path: the DefaultServeMux answers 404, no handler runs
RequestNotFound(path) ==
    /\ alive /\ mux # -1 /\ att[mux].srv = "listening"
    /\ nreq < MaxRequests
    /\ ~RouteMatches(path)
    /\ nreq' = nreq + 1
    /\ hist' = [hist EXCEPT !.notFound = TRUE]
    /\ UNCHANGED <<env, httpPort, credFile, tokenFile, stdout, alive, exitMsg, mainPc,
                   once, pc, getter, observed, tok, att, authCode, mux, sends, now>>

\* the handler's errorChan <- err / codeChan <- code, and its return
HandlerSend(h) ==
    /\ alive /\ BagIn(h, sends)
    /\ CanSend(mux, h.ch)
    /\ att' = [att EXCEPT ![mux] = AfterSend(mux, h.ch, h.val, h.exact)]
    /\ pc' = PcAfterSend(mux, h.ch)
    /\ sends' = sends (-) SetToBag({h})
    /\ UNCHANGED <<env, httpPort, credFile, tokenFile, stdout, alive, exitMsg, mainPc,
                   once, getter, observed, tok, authCode, mux, nreq, now, hist>>

\* the cases of the select a goroutine may take when several channels are ready:
\* Go chooses among the ready cases at random
SelectReady(ready) == ready

\* time.Sleep, the printed authorization URL, and the select statement evaluated:
\* it receives from a ready channel, or parks the goroutine
CbSelect(c) ==
    /\ alive /\ pc[c] = "cb_select"
    /\ stdout' = stdout \cup {[what |-> "authURL", state |-> att[c].state]}
    /\ LET ready == {k \in {"code", "error"} : att[c].chan[k] # <<>>} IN
       IF ready = {}
       THEN /\ pc' = [pc EXCEPT ![c] = "cb_parked"]
            /\ att' = [att EXCEPT ![c].waited = TRUE]
       ELSE \E k \in SelectReady(ready) :
            /\ att' = [att EXCEPT ![c].got = Head(att[c].chan[k]),
                                  ![c].chan[k] = Tail(@),
                                  ![c].chosen = k]
            /\ pc' = [pc EXCEPT ![c] = "cb_got_" \o k]
    /\ hist' = [hist EXCEPT !.per[getter[c]].urls = @ + 1]
    /\ UNCHANGED <<env, httpPort, credFile, tokenFile, alive, exitMsg, mainPc, once,
                   getter, observed, tok, authCode, mux, nreq, sends, now>>

\* faulty variant of TimerFire: the select has no timeout case
NoTimer(c) == FALSE

\* the channel of time.After(5 * time.Minute) fires while the goroutine is parked;
\* the five minutes outlast the start of the server goroutine, which waits for
\* nothing between its launch and the bind result or the send of the bind error
TimerFire(c) ==
    /\ alive /\ Parked(c)
    /\ att[c].srv \notin {"starting", "send_err"}
    /\ att' = [att EXCEPT ![c].chosen = "timeout",
                          ![c].first = IF @ = "none" THEN "timeout" ELSE @,
                          ![c].delivered = @ \cup {"timeout"}]
    /\ pc' = [pc EXCEPT ![c] = "cb_got_timeout"]
    /\ UNCHANGED <<env, httpPort, credFile, tokenFile, stdout, alive, exitMsg, mainPc,
                   once, getter, observed, tok, authCode, mux, nreq, sends, now, hist>>

\* faulty variant of Shutdown: the server is left as it is
NoShutdown(a) == a

\* faulty variant of Shutdown: the server is shut down a second time on return
ShutdownTwice(a) ==
    [a EXCEPT !.shutdown = @ + 2,
              !.srv = IF @ \in {"starting", "listening"} THEN "closed" ELSE @]

\* server.Shutdown(ctx): the listener is closed; ListenAndServe returns ErrServerClosed
Shutdown(a) ==
    [a EXCEPT !.shutdown = @ + 1,
              !.srv = IF @ \in {"starting", "listening"} THEN "closed" ELSE @]

\* case code := <-codeChan: shut the server down
CbCodeBranch(c) ==
    /\ alive /\ pc[c] = "cb_got_code"
    /\ att' = [att EXCEPT ![c] = Shutdown(@)]
    /\ pc' = [pc EXCEPT ![c] = "cb_exchange"]
    /\ UNCHANGED <<env, httpPort, credFile, tokenFile, stdout, alive, exitMsg, mainPc,
                   once, getter, observed, tok, authCode, mux, nreq, sends, now, hist>>

\* config.Exchange(context.TODO(), code) of the callback flow
CbExchange(c) ==
    /\ alive /\ pc[c] = "cb_exchange"
    /\ hist' = [hist EXCEPT !.per[getter[c]].exchanges = @ + 1]
    /\ \/ /\ Fatal("Unable to retrieve token from web")
          /\ att' = [att EXCEPT ![c].exchanges = @ + 1]
          /\ UNCHANGED <<tok, pc>>
       \/ /\ tok' = [tok EXCEPT ![c] = IssuedToken(c)]
          /\ att' = [att EXCEPT ![c].exchanges = @ + 1, ![c].authorized = TRUE]
          /\ pc' = [pc EXCEPT ![c] = AfterFlow]
          /\ UNCHANGED <<alive, exitMsg>>
    /\ UNCHANGED <<env, httpPort, credFile, tokenFile, stdout, mainPc, once, getter, observed,
                   authCode, mux, nreq, sends, now>>

\* case err := <-errorChan: shut the server down, log.Fatalf
CbErrorBranch(c) ==
    /\ alive /\ pc[c] = "cb_got_error"
    /\ att' = [att EXCEPT ![c] = Shutdown(@)]
    /\ Fatal("OAuth callback error: " \o att[c].got)
    /\ UNCHANGED <<env, httpPort, credFile, tokenFile, stdout, mainPc, once, pc, getter,
                   observed, tok, authCode, mux, nreq, sends, now, hist>>

\* case <-time.After(5 * time.Minute): shut the server down, log.Fatalf
CbTimeoutBranch(c) ==
    /\ alive /\ pc[c] = "cb_got_timeout"
    /\ att' = [att EXCEPT ![c] = Shutdown(@)]
    /\ Fatal("OAuth authorization timed out after 5 minutes")
    /\ UNCHANGED <<env, httpPort, credFile, tokenFile, stdout, mainPc, once, pc, getter,
                   observed, tok, authCode, mux, nreq, sends, now, hist>>

\* ------------------------------------------------------------------ manual flow
\* faulty variant of ToLower: upper case is kept
ToLowerKeeps(s) == s

\* the error of fmt.Scan, as it is kept in the history
ScanError == "<error>"

\* strings.ToLower on the answers the model reads
ToLower(s) == IF s = "Y" THEN "y" ELSE IF s = "N" THEN "n" ELSE s

\* a line of standard input that holds white space only
Blank(line) == line \in {"", " "}

\* fmt.Scan(&word) on the lines that the user types before the end of input: new
\* lines count as space and leading space is skipped, so blank lines are passed
\* over; the result is the first word, or an error at the end of input
RECURSIVE Scan(_)
Scan(lines) ==
    IF lines = <<>> THEN [err |-> TRUE, s |-> ""]
    ELSE IF Blank(Head(lines)) THEN Scan(Tail(lines))
    ELSE [err |-> FALSE, s |-> Head(lines)]

\* strings.TrimSpace
RECURSIVE TrimSpace(_)
TrimSpace(str) ==
    IF str = "" THEN ""
    ELSE IF SubSeq(str, 1, 1) = " " THEN TrimSpace(SubSeq(str, 2, Len(str)))
    ELSE IF SubSeq(str, Len(str), Len(str)) = " "
    THEN TrimSpace(SubSeq(str, 1, Len(str) - 1))
    ELSE str

\* what the user types at the code prompt and at the confirmation prompt, up to the
\* end of input (each line is blank or one word)
CodeLines ==
    {<<>>, <<"4/abc123">>, <<"abc123">>, <<"">>, <<" ", "4/abc123">>, <<"", "abc123">>}
ConfirmLines == {<<>>, <<"y">>, <<"Y">>, <<"n">>, <<"", "y">>}

\* getTokenFromWeb up to the exchange or the confirmation prompt
ManualScan(c) ==
    /\ alive /\ pc[c] = "manual"
    /\ stdout' = stdout \cup {[what |-> "authURL", state |-> "state-token"]}
    /\ \E lines \in CodeLines :
        LET r == Scan(lines)
            code == TrimSpace(r.s)
        IN
        /\ hist' = [hist EXCEPT !.per[getter[c]].stdinReads = @ + 1,
                                !.per[getter[c]].urls = @ + 1,
                                !.per[getter[c]].blankCode =
                                    lines # <<>> /\ Blank(Head(lines))]
        /\ IF r.err
           THEN /\ Fatal("Unable to read authorization code")
                /\ UNCHANGED <<pc, authCode>>
           ELSE IF code = ""
           THEN /\ Fatal("Authorization code cannot be empty")
                /\ UNCHANGED <<pc, authCode>>
           ELSE /\ authCode' = [authCode EXCEPT ![c] = code]
                /\ pc' = [pc EXCEPT ![c] = IF HasPrefix(code, "4/") THEN "manual_exchange"
                                            ELSE "manual_confirm"]
                /\ UNCHANGED <<alive, exitMsg>>
    /\ UNCHANGED <<env, httpPort, credFile, tokenFile, mainPc, once, getter, observed, tok,
                   att, mux, nreq, sends, now>>

\* the "Continue anyway? (y/N)" prompt
ManualConfirm(c) ==
    /\ alive /\ pc[c] = "manual_confirm"
    /\ \E lines \in ConfirmLines :
        LET r == Scan(lines) IN
        /\ hist' = [hist EXCEPT !.per[getter[c]].stdinReads = @ + 1,
                                !.per[getter[c]].answer =
                                    IF r.err THEN ScanError ELSE r.s]
        /\ IF r.err \/ ToLower(r.s) # "y"
           THEN /\ Fatal("Authorization cancelled by user")
                /\ pc' = pc
           ELSE /\ pc' = [pc EXCEPT ![c] = "manual_exchange"]
                /\ UNCHANGED <<alive, exitMsg>>
    /\ UNCHANGED <<env, httpPort, credFile, tokenFile, stdout, mainPc, once, getter, observed,
                   tok, att, authCode, mux, nreq, sends, now>>

\* config.Exchange(context.TODO(), authCode) of the manual flow
ManualExchange(c) ==
    /\ alive /\ pc[c] = "manual_exchange"
    /\ hist' = [hist EXCEPT !.per[getter[c]].exchanges = @ + 1]
    /\ \/ /\ Fatal("Unable to retrieve token from web")
          /\ UNCHANGED <<tok, pc>>
       \/ /\ tok' = [tok EXCEPT ![c] = IssuedToken(c)]
          /\ pc' = [pc EXCEPT ![c] = AfterFlow]
          /\ UNCHANGED <<alive, exitMsg>>
    /\ UNCHANGED <<env, httpPort, credFile, tokenFile, stdout, mainPc, once, getter, observed,
                   att, authCode, mux, nreq, sends, now>>

\* ------------------------------------------------------------------ specification
Next ==
    \/ MainStartup
    \/ MainEager
    \/ MainServe
    \/ \E c \in Callers, g \in Getters : Call(c, g)
    \/ \E c \in Callers :
        \/ OnceLock(c)
        \/ TokLoad(c)
        \/ SaveOpen(c)
        \/ SaveEncode(c)
        \/ NewService(c)
        \/ CbSetup(c)
        \/ SrvListen(c)
        \/ SrvSendErr(c)
        \/ CbSelect(c)
        \/ TimerFire(c)
        \/ CbCodeBranch(c)
        \/ CbExchange(c)
        \/ CbErrorBranch(c)
        \/ CbTimeoutBranch(c)
        \/ ManualScan(c)
        \/ ManualConfirm(c)
        \/ ManualExchange(c)
    \/ \E path \in ReqPaths :
        \/ RequestArrives(path)
        \/ RequestNotFound(path)
    \/ \E h \in BagToSet(sends) : HandlerSend(h)

Spec == Init /\ [][Next]_vars

\* the steps of the goroutine of caller c: the getter call and the flow it runs
Foreground(c) ==
    \/ OnceLock(c) \/ TokLoad(c) \/ SaveOpen(c) \/ SaveEncode(c) \/ NewService(c)
    \/ CbSetup(c) \/ CbSelect(c) \/ CbCodeBranch(c) \/ CbExchange(c)
    \/ CbErrorBranch(c) \/ CbTimeoutBranch(c)
    \/ ManualScan(c) \/ ManualConfirm(c) \/ ManualExchange(c)

\* the Go scheduler runs every goroutine that can run (the caller's goroutine,
\* the server goroutine), and the runtime fires a timer whose time has come
FairSpec ==
    /\ Spec
    /\ \A c \in Callers :
          /\ WF_vars(Foreground(c))
          /\ WF_vars(SrvListen(c) \/ SrvSendErr(c))
          /\ WF_vars(TimerFire(c))

\* saveToken(path, T) is about to run in caller 0, nothing else is going on
RtInit ==
    /\ env = [GOOGLE_APPLICATION_CREDENTIALS |-> "", GOOGLE_CLIENT_SECRETS |-> "cs.json",
              OAUTH_USE_CALLBACK |-> "", OAUTH_CALLBACK_PORT |-> ""]
    /\ httpPort = ""
    /\ credFile = "ok"
    /\ tokenFile \in {Missing, Garbage, FileOf(CachedToken, Perm0600)}
    /\ stdout = {}
    /\ alive = TRUE
    /\ exitMsg = ""
    /\ mainPc = "serving"
    /\ once = [g \in Getters |-> [done |-> FALSE, locked |-> FALSE, valid |-> FALSE,
                                  result |-> NilResult]]
    /\ pc = [c \in Callers |-> IF c = 0 THEN "save_open" ELSE "idle"]
    /\ getter = [c \in Callers |-> "GoogleDriveClient"]
    /\ observed = NoneObserved
    /\ tok \in {[c \in Callers |-> IF c = 0 THEN t ELSE NoToken] : t \in RtTokens}
    /\ att = [c \in Callers |-> EmptyAttempt]
    /\ authCode = [c \in Callers |-> ""]
    /\ mux = -1
    /\ nreq = 0
    /\ sends = EmptyBag
    /\ now = 0
    /\ hist = NoHist

\* tokenFromFile(path) after saveToken(path, T) returned: caller 1 keeps what the
\* load gave, the token and whether there was an error
LoadBack ==
    /\ alive /\ pc[0] = "newservice" /\ pc[1] = "idle"
    /\ LET r == TokenFromFile(tokenFile) IN
       /\ pc' = [pc EXCEPT ![1] = IF r.err THEN "load_failed" ELSE "loaded"]
       /\ tok' = [tok EXCEPT ![1] = r.token]
    /\ UNCHANGED <<env, httpPort, credFile, tokenFile, stdout, alive, exitMsg, mainPc,
                   once, getter, observed, att, authCode, mux, nreq, sends, now, hist>>

RtNext == SaveOpen(0) \/ SaveEncode(0) \/ LoadBack

RoundTripSpec == RtInit /\ [][RtNext]_vars

\* the token that the client of getter g's handle holds now
LiveToken(g) ==
    IF hist.per[g].refreshed
    THEN RefreshedToken(once[g].result.token)
    ELSE once[g].result.token

\* the client returned by config.Client(ctx, token), used by a tool after the token
\* expired: its token source exchanges the refresh value for a new token and keeps
\* that in memory (its later refreshes do the same); getHTTPClient has handed it no
\* way to call saveToken
Refresh(g) ==
    /\ alive
    /\ once[g].valid /\ once[g].result.kind = "handle"
    /\ once[g].result.token.refresh # ""
    /\ ~hist.per[g].refreshed
    /\ hist' = [hist EXCEPT !.per[g].refreshed = TRUE]
    /\ UNCHANGED <<env, httpPort, credFile, tokenFile, stdout, alive, exitMsg, mainPc,
                   once, pc, getter, observed, tok, att, authCode, mux, nreq, sends, now>>

\* the program with its tools using the handles over a time in which tokens expire
RefreshNext == Next \/ \E g \in Getters : Refresh(g)

RefreshSpec == Init /\ [][RefreshNext]_vars

\* one request more than MaxRequests reaches the listener: the handler goroutine
\* runs up to its channel send
ExtraRequest ==
    /\ alive /\ mux # -1 /\ att[mux].srv = "listening"
    /\ nreq = MaxRequests
    /\ nreq' = nreq + 1
    /\ \E h \in {HandlerOf(reqState, reqCode, att[mux].state) :
                    reqState \in ReqStates(att[mux].state), reqCode \in ReqCodes} :
         sends' = sends (+) SetToBag({h})
    /\ UNCHANGED <<env, httpPort, credFile, tokenFile, stdout, alive, exitMsg, mainPc,
                   once, pc, getter, observed, tok, att, authCode, mux, now, hist>>

\* the program with a browser (or anyone else) that sends one request more
BurstNext == Next \/ ExtraRequest

BurstSpec == Init /\ [][BurstNext]_vars

\* a token file whose content parses as JSON and holds no access value, such as {}
NoAccessFile == FileOf(NoToken, Perm0600)

\* the configurations the process is started in, the token file being whatever an
\* earlier run, another program or the user has left at the token path
LeftoverInit ==
    /\ env \in [GOOGLE_APPLICATION_CREDENTIALS : {"", "sa.json"},
                GOOGLE_CLIENT_SECRETS : {"", "cs.json"},
                OAUTH_USE_CALLBACK : {"", "1"},
                OAUTH_CALLBACK_PORT : {""}]
    /\ httpPort \in {"", "9090"}
    /\ env.OAUTH_USE_CALLBACK = "1" => httpPort = ""
    /\ credFile \in {"unreadable", "malformed", "ok"}
    /\ tokenFile \in {Missing, Garbage, FileOf(CachedToken, Perm0600), NoAccessFile}
    /\ stdout = {}
    /\ alive = TRUE
    /\ exitMsg = ""
    /\ mainPc = "start"
    /\ once = [g \in Getters |-> [done |-> FALSE, locked |-> FALSE, valid |-> FALSE,
                                  result |-> NilResult]]
    /\ pc = [c \in Callers |-> "idle"]
    /\ getter = [c \in Callers |-> "GoogleDriveClient"]
    /\ observed = NoneObserved
    /\ tok = [c \in Callers |-> NoToken]
    /\ att = [c \in Callers |-> EmptyAttempt]
    /\ authCode = [c \in Callers |-> ""]
    /\ mux = -1
    /\ nreq = 0
    /\ sends = EmptyBag
    /\ now = 0
    /\ hist = NoHist

LeftoverSpec == LeftoverInit /\ [][Next]_vars

\* ------------------------------------------------------------------ properties
\* C1: of the callers that race on the first call of a getter at most one runs the
\* construction body, and all of them are given one and the same outcome (the same
\* handle, or the same failure)
C1_BodyOnceSameOutcome ==
    \A g \in Getters :
        /\ hist.per[g].bodyRuns <= 1
        /\ Cardinality(observed.results[g]) <= 1

\* a caller that lost the race stands at the mutex of once.Do after the winner was
\* given the outcome of the one run of the body
C1_RaceWitness ==
    \E c \in Callers, g \in Getters :
        /\ pc[c] = "once_lock" /\ getter[c] = g
        /\ once[g].done /\ hist.per[g].bodyRuns = 1
        /\ observed.results[g] = {OnceResult(once[g])}

\* C2: once a getter has succeeded, every later call of it returns the stored handle
\* and changes nothing but the caller's own position: no environment read, no file
\* read or write, no authorization flow, no exchange
C2_LaterCallsChangeNothing ==
    [][\A c \in Callers, g \in Getters :
          (/\ once[g].done /\ once[g].valid
           /\ Call(c, g) \/ (OnceLock(c) /\ getter[c] = g))
          => /\ observed'.results[g] = {once[g].result}
             /\ UNCHANGED <<env, httpPort, credFile, tokenFile, stdout, alive, exitMsg,
                             mainPc, once, tok, att, authCode, mux, nreq, sends, now,
                             hist>>]_vars

\* a later call has returned the handle of a successful construction
C2_LaterCallWitness ==
    \E g \in Getters :
        /\ once[g].valid /\ observed.later
        /\ observed.results[g] = {once[g].result}

\* C3: a getter whose body found a JSON token in the token file (OAuth mode) has
\* printed no authorization URL, read no stdin, started no listener, made no exchange
C3_CachedTokenNoFlow ==
    \A g \in Getters :
        hist.per[g].loaded =>
            /\ hist.per[g].flows = 0 /\ hist.per[g].urls = 0
            /\ hist.per[g].stdinReads = 0 /\ hist.per[g].listeners = 0
            /\ hist.per[g].exchanges = 0

\* a handle was built in OAuth mode from the cached token
C3_CachedWitness ==
    \E g \in Getters :
        /\ hist.per[g].loaded /\ once[g].valid
        /\ ~LoadGoogleCredentials(env).UseServiceAccount
        /\ once[g].result.token = CachedToken

\* C4: a handler whose request did not carry exactly the attempt's state stands at
\* the send of the state-mismatch error, and no code was ever sent for such a request
C4_MismatchNeverCode ==
    /\ \A h \in BagToSet(sends) :
           ~h.exact => h.ch = "error" /\ h.val = "invalid state parameter"
    /\ \A c \in Callers : ~att[c].forged

\* the error of a request with a wrong state was delivered while the wait was open
C4_MismatchWitness ==
    \E c \in Callers : att[c].badBefore /\ att[c].fired.error >= 1

\* the attempt of caller c has taken the error case and the process was ended by
\* that case's log.Fatalf
FailedByCallback(c) ==
    /\ att[c].chosen = "error"
    /\ ~alive /\ exitMsg = "OAuth callback error: " \o att[c].got

\* the listener of attempt c accepts no more connections
ListenerDown(c) == att[c].shutdown >= 1 /\ att[c].srv \notin {"starting", "listening"}

C7_OneShotSignals ==
    \A c \in Callers : att[c].fired.code <= 1 /\ att[c].fired.error <= 1

\* C8: no two attempts have the same state value
C8_StateUnique ==
    \A c1, c2 \in Callers :
        (c1 # c2 /\ att[c1].state # "" /\ att[c2].state # "")
            => att[c1].state # att[c2].state

\* what an observer computes from the seconds in which the attempt may have begun
ObserverGuesses == {"state-" \o ToString(t) : t \in 0..MaxClock}

\* C9: the state value of an attempt is none of the values an observer computes from
\* what it knows
C9_StateUnguessable ==
    \A c \in Callers : att[c].state # "" => att[c].state \notin ObserverGuesses

\* the handle built by caller c from the token its callback-flow attempt obtained
ReturnedAuthorized(c, g) ==
    /\ once[g].done /\ once[g].valid
    /\ once[g].result.by = c /\ once[g].result.token = IssuedToken(c)

\* C10: an attempt whose exchange succeeded took the code outcome of a request with
\* the exact state and a non-empty code, has shut its listener down, and when its
\* handle is returned the token file holds the token
C10_AuthorizedPersistedShutDown ==
    \A c \in Callers :
        att[c].authorized =>
            /\ att[c].chosen = "code" /\ att[c].got # "" /\ ~att[c].forged
            /\ att[c].exchanges = 1
            /\ ListenerDown(c)
            /\ \A g \in Getters :
                 ReturnedAuthorized(c, g) =>
                     /\ tokenFile.kind = "json"
                     /\ SameToken(DecodeToken(tokenFile.json), IssuedToken(c))

\* the handle was returned after a callback-flow attempt that was authorized
C10_ReturnedWitness ==
    \E c \in Callers, g \in Getters : att[c].authorized /\ ReturnedAuthorized(c, g)

\* the attempt of caller c has taken the timeout case and the process was ended by
\* that case's log.Fatalf
TimedOut(c) ==
    /\ att[c].chosen = "timeout"
    /\ ~alive /\ exitMsg = "OAuth authorization timed out after 5 minutes"

\* the select of attempt c has taken a case and the case's body has not run yet
JustResolved(c) == pc[c] \in {"cb_got_code", "cb_got_error", "cb_got_timeout"}

\* C11: in every attempt server.Shutdown is invoked at most once, never before the
\* select has taken a case, and once the case taken has gone on (to the exchange,
\* or to its log.Fatalf) it has been invoked exactly once
C11_ShutdownExactlyOnce ==
    \A c \in Callers :
        /\ att[c].shutdown <= 1
        /\ att[c].shutdown >= 1 => att[c].chosen # "none"
        /\ (att[c].chosen # "none" /\ ~JustResolved(c)) => att[c].shutdown = 1
        /\ (pc[c] = "cb_exchange" \/ att[c].exchanges >= 1) => att[c].shutdown = 1
        /\ (FailedByCallback(c) \/ TimedOut(c)) => att[c].shutdown = 1

\* the wait was resolved by the timeout and the process ended after one shutdown
C11_TimeoutWitness ==
    \E c \in Callers : TimedOut(c) /\ att[c].shutdown = 1

\* C12: the token file is written only by a getter whose exchange has succeeded, and
\* a getter that went through an authorization flow has completed its write of the
\* token before the client and the handle are built from the token
C12_PersistBeforeHandle ==
    /\ \A g \in Getters :
          /\ hist.per[g].tokWrites >= 1 =>
                 hist.per[g].flows = 1 /\ hist.per[g].exchanges = 1
          /\ (once[g].valid /\ hist.per[g].flows >= 1) =>
                 /\ hist.per[g].tokWrites = 1
                 /\ once[g].result.token = IssuedToken(once[g].result.by)
    /\ \A c \in Callers :
          /\ pc[c] \in {"save_open", "save_encode"} => tok[c] = IssuedToken(c)
          /\ (pc[c] = "newservice" /\ hist.per[getter[c]].flows >= 1) =>
                 hist.per[getter[c]].tokWrites = 1 /\ tok[c] = IssuedToken(c)

\* a handle was built from a token that a flow of this run obtained and saved
C12_FreshHandleWitness ==
    \E g \in Getters :
        /\ once[g].valid /\ hist.per[g].flows = 1 /\ hist.per[g].tokWrites = 1
        /\ once[g].result.token = IssuedToken(once[g].result.by)

\* no request for the callback route has reached the handler so far
NoRouteRequest(c) ==
    /\ sends = EmptyBag
    /\ att[c].fired.code = 0 /\ att[c].fired.error = 0

\* the server goroutine's ListenAndServe returned an error other than ErrServerClosed
ListenerFailed(c) == att[c].srv \in {"send_err", "exited"}

\* C13: an attempt that has begun its wait and that no callback request reaches and
\* whose listener does not fail ends by the timeout; and an attempt that ended by the
\* timeout made no exchange, reports the timeout and not a callback error, and has
\* shut its listener down
C13_TimeoutWhenNoRequest ==
    /\ [](\A c \in Callers :
            TimedOut(c) =>
                /\ att[c].exchanges = 0 /\ ~att[c].authorized
                /\ ~FailedByCallback(c)
                /\ ListenerDown(c))
    /\ \A c \in Callers :
          (pc[c] \in {"cb_select", "cb_parked"})
              ~> (TimedOut(c) \/ ~NoRouteRequest(c) \/ ListenerFailed(c))

\* the attempt timed out with no callback request ever handled
C13_TimedOutWitness ==
    \E c \in Callers :
        /\ TimedOut(c) /\ NoRouteRequest(c) /\ ~ListenerFailed(c)
        /\ ListenerDown(c) /\ att[c].exchanges = 0

\* caller c is inside getTokenFromWebWithCallback
InCallbackFlow(c) ==
    pc[c] \in {"cb_setup", "cb_select", "cb_parked", "cb_got_code", "cb_got_error",
               "cb_got_timeout", "cb_exchange"}

\* caller c is inside getTokenFromWeb
InManualFlow(c) == pc[c] \in {"manual", "manual_confirm", "manual_exchange"}

\* C14: at no time are two callers inside an authorization flow
C14_SingleAttempt ==
    Cardinality({c \in Callers : InCallbackFlow(c) \/ InManualFlow(c)}) <= 1

\* C15: while the process lives, a getter whose construction has ended holds a handle,
\* and nothing but a handle was ever returned to a caller
C15_FailedConstructionEndsProcess ==
    alive =>
        \A g \in Getters :
            /\ once[g].done => (once[g].valid /\ once[g].result.kind = "handle")
            /\ \A r \in observed.results[g] : r.kind = "handle"

\* C16: an attempt invokes the exchange at most once and prints its URL at most once,
\* an attempt that took the error or the timeout case invokes no exchange, and after
\* a fatal error has been reported no step of any goroutine follows
C16_ErrorsTerminalNoRetry ==
    /\ [](/\ \A c \in Callers :
               /\ att[c].exchanges <= 1
               /\ att[c].chosen \in {"error", "timeout"} => att[c].exchanges = 0
          /\ \A g \in Getters :
               /\ hist.per[g].exchanges <= 1 /\ hist.per[g].urls <= 1
               /\ hist.per[g].flows <= 1 /\ hist.per[g].stdinReads <= 2)
    /\ [][exitMsg # "" => UNCHANGED vars]_vars

\* the attempt failed with a callback error while the handler of a request with the
\* exact state and a code still stands at its send: that code is never exchanged
C16_LateCodeWitness ==
    \E c \in Callers :
        /\ FailedByCallback(c) /\ att[c].exchanges = 0
        /\ \E h \in BagToSet(sends) : h.ch = "code"

\* a string all of whose bytes are valid UTF-8
RECURSIVE ValidUTF8(_)
ValidUTF8(str) ==
    \/ str = ""
    \/ /\ SubSeq(str, 1, 1) # BadByte
       /\ ValidUTF8(SubSeq(str, 2, Len(str)))

\* the load that followed the save has returned
LoadedBack == pc[1] \in {"loaded", "load_failed"}

\* C17 as stated: for every token T, saveToken(path, T) followed by
\* tokenFromFile(path) yields, without error, a token equal to T in access value,
\* refresh value, expiry and token type
C17_AsStated ==
    LoadedBack => pc[1] = "loaded" /\ SameToken(tok[1], tok[0])

\* C17: for every token T whose access value, refresh value and token type are
\* valid UTF-8, saveToken(path, T) followed by tokenFromFile(path) yields, without
\* error, a token with the access value, refresh value, token type and expiry
\* instant of T, whatever was at the path before
C17_RoundTripOfValidText ==
    (/\ LoadedBack
     /\ ValidUTF8(tok[0].access) /\ ValidUTF8(tok[0].refresh)
     /\ ValidUTF8(tok[0].tokenType))
        => pc[1] = "loaded" /\ SameToken(tok[1], tok[0])

\* a token with every field set, with characters that JSON escapes and with a
\* monotonic clock reading came back equal over a file that held something else
C17_RoundTripWitness ==
    /\ pc[1] = "loaded"
    /\ tok[0].access = "a<b\\c" /\ tok[0].refresh # "" /\ tok[0].tokenType # ""
    /\ tok[0].expiry = Time(1, 1)
    /\ tokenFile.perm = 420
    /\ SameToken(tok[1], tok[0])

\* saveToken has returned at least once in this run
SaveSucceeded == \E g \in Getters : hist.per[g].tokWrites >= 1

\* C18: after every successful saveToken the token file has the permission bits 0600,
\* whether or not a file existed at the path and whatever its bits were before
C18_SavedFileOwnerOnly ==
    SaveSucceeded => tokenFile.perm = Perm0600

\* a complete token record can be read: saveToken writes to the path itself and
\* keeps no second copy, so the record at the path is the only one there can be
CompleteCopyReadable == tokenFile.kind = "json"

\* C19: at no point during a save, and after a save that failed midway, does the
\* path hold an empty or partial token record while no complete record is readable
C19_NeverOnlyPartialCopy ==
    tokenFile.kind = "empty" => CompleteCopyReadable

\* the step in which caller c's tokenFromFile returns
LoadReturns(c) == pc[c] = "tokload" /\ pc'[c] # "tokload"

\* C20: every failure of the token load (the file is missing, cannot be opened, or
\* does not decode) is not fatal: the caller goes on to the authorization flow that
\* the environment selects and the process stays alive; and a caller is in an
\* authorization flow only when the load of its getter failed
C20_LoadFailureLeadsToFlow ==
    /\ [][\A c \in Callers :
            LoadReturns(c) =>
                IF tokenFile.kind # "json"
                THEN /\ alive' /\ exitMsg' = ""
                     /\ pc'[c] = IF UseCallback(env) THEN "cb_setup" ELSE "manual"
                ELSE pc'[c] = "newservice" /\ tok'[c] = DecodeToken(tokenFile.json)]_vars
    /\ [](\A c \in Callers :
            (InCallbackFlow(c) \/ InManualFlow(c)) =>
                /\ hist.per[getter[c]].tokReads = 1
                /\ ~hist.per[getter[c]].loaded)
    /\ [](\A g \in Getters : hist.per[g].flows >= 1 => ~hist.per[g].loaded)

\* the process is alive, one caller is in the middle of saveToken after its flow,
\* and another caller whose load failed is in the manual flow
C20_FlowAfterFailedLoadWitness ==
    /\ alive
    /\ tokenFile.kind = "empty"
    /\ \E c, d \in ToolCallers :
          /\ c # d /\ pc[c] = "save_encode" /\ InManualFlow(d)
          /\ ~hist.per[getter[d]].loaded /\ hist.per[getter[d]].flows = 1

\* the messages with which saveToken ends the process
SaveErrors == {"Unable to cache oauth token", "Unable to encode token to file"}

\* a handle was built from a token that caller c obtained
HandleBuiltBy(c) ==
    \E g \in Getters :
        \/ once[g].result.kind = "handle" /\ once[g].result.by = c
        \/ \E r \in observed.results[g] : r.kind = "handle" /\ r.by = c

\* C21: if writing the token file fails (OpenFile or Encode), the process ends with
\* that error and no handle is built from the token that was not persisted; a
\* caller leaves saveToken towards the client only with its token in the file
C21_SaveFailureFatal ==
    /\ [](exitMsg \in SaveErrors =>
            /\ ~alive
            /\ \E c \in Callers : pc[c] \in {"save_open", "save_encode"}
            /\ \A c \in Callers :
                   pc[c] \in {"save_open", "save_encode"} =>
                       /\ ~HandleBuiltBy(c)
                       /\ ~once[getter[c]].done)
    /\ [][\A c \in Callers :
            (pc[c] \in {"save_open", "save_encode"} /\ pc'[c] # pc[c]) =>
                \/ pc[c] = "save_open" /\ pc'[c] = "save_encode"
                \/ /\ pc[c] = "save_encode" /\ pc'[c] = "newservice"
                   /\ alive' /\ tokenFile'.kind = "json"
                   /\ SameToken(DecodeToken(tokenFile'.json), tok[c])]_vars

\* Encode failed after the flow had issued a token: the process has ended, the
\* token is in memory only and the file is empty
C21_EncodeFailedWitness ==
    /\ ~alive /\ exitMsg = "Unable to encode token to file"
    /\ tokenFile.kind = "empty"
    /\ \E c \in Callers :
          /\ pc[c] = "save_encode" /\ tok[c] = IssuedToken(c)
          /\ ~HandleBuiltBy(c)

\* the token file holds exactly token t
FileHolds(t) == tokenFile.kind = "json" /\ SameToken(DecodeToken(tokenFile.json), t)

\* C22: the token file changes only by being cut to length 0 by a save and by
\* being written with the one whole token of a save; a handle is built from a
\* newly issued token only after that token was written; and whenever the token
\* held by the client of a handle changes by a refresh, the token file afterwards
\* holds exactly the new token
C22_DiskFollowsToken ==
    /\ [][tokenFile' # tokenFile =>
            \/ tokenFile'.kind = "empty"
            \/ /\ tokenFile.kind \in {"empty", "json"} /\ tokenFile'.kind = "json"
               /\ \E c \in Callers :
                     /\ pc[c] = "save_encode"
                     /\ tokenFile'.json = EncodeToken(tok[c])]_vars
    /\ [][\A g \in Getters :
            (/\ ~once[g].valid /\ once'[g].valid
             /\ hist.per[g].flows >= 1) => hist.per[g].tokWrites = 1]_vars
    /\ [][\A g \in Getters :
            hist'.per[g].refreshed # hist.per[g].refreshed =>
                (FileHolds(LiveToken(g)))']_vars

\* neither the service-credential path nor the OAuth-client-config path is set
NoneConfigured ==
    env.GOOGLE_APPLICATION_CREDENTIALS = "" /\ env.GOOGLE_CLIENT_SECRETS = ""

\* C23: with neither path configured the process ends with a configuration error and
\* nothing else ever happens: no getter body runs, no credential file and no token
\* file is read, no listener is started, no URL is shown, no exchange is made, the
\* token file is untouched and no handle is built
C23_NoSourceFatalBeforeAnything ==
    [](NoneConfigured =>
           /\ mainPc = "start"
           /\ IF alive THEN exitMsg = ""
              ELSE exitMsg = "Configuration Error: Missing required environment variables"
           /\ hist = NoHist
           /\ tokenFile \in {Missing, Garbage, FileOf(CachedToken, Perm0600)}
           /\ \A g \in Getters :
                 /\ ~once[g].done /\ ~once[g].locked /\ once[g].result = NilResult
                 /\ observed.results[g] = {}
           /\ \A c \in Callers : pc[c] = "idle" /\ att[c] = EmptyAttempt
           /\ mux = -1 /\ sends = EmptyBag)

\* nothing was configured and the process has ended with the configuration error
C23_ConfigErrorWitness ==
    /\ NoneConfigured /\ ~alive
    /\ exitMsg = "Configuration Error: Missing required environment variables"
    /\ hist = NoHist

\* the mode that the two configured strings call for
ModeOf(e) ==
    IF e.GOOGLE_APPLICATION_CREDENTIALS # "" THEN "SERVICE_ACCOUNT"
    ELSE IF e.GOOGLE_CLIENT_SECRETS # "" THEN "OAUTH_CLIENT"
    ELSE "NONE"

\* C24: the mode is SERVICE_ACCOUNT exactly when the service-credential path is set
\* (also when both are set) and OAUTH_CLIENT exactly when only the client-config path
\* is set; main and the bodies of both getters decide alike: main takes its OAuth
\* branch (first-run detection) only in OAUTH_CLIENT mode, a getter loads the token
\* file or runs a flow only in OAUTH_CLIENT mode, and a handle is built without a
\* user token exactly in SERVICE_ACCOUNT mode
C24_ModeDeterministic ==
    [](/\ LoadGoogleCredentials(env).UseServiceAccount <=> ModeOf(env) = "SERVICE_ACCOUNT"
       /\ LoadGoogleCredentials(env).fatal <=> ModeOf(env) = "NONE"
       /\ MainUsesServiceAccount(env) <=> LoadGoogleCredentials(env).UseServiceAccount
       /\ MainMissingEnvs(env) <=> LoadGoogleCredentials(env).fatal
       /\ env.OAUTH_USE_CALLBACK = "true" => ModeOf(env) = "OAUTH_CLIENT"
       /\ \A g \in Getters :
             /\ (hist.per[g].tokReads >= 1 \/ hist.per[g].flows >= 1)
                   => ModeOf(env) = "OAUTH_CLIENT"
             /\ once[g].valid =>
                   /\ ModeOf(env) \in {"SERVICE_ACCOUNT", "OAUTH_CLIENT"}
                   /\ ModeOf(env) = "SERVICE_ACCOUNT" <=> once[g].result.token = NoToken
                   /\ ModeOf(env) = "OAUTH_CLIENT" <=> hist.per[g].tokReads = 1)

\* both paths are set and both getters have built their handle from the service
\* credentials without touching the token file
C24_BothSetWitness ==
    /\ env.GOOGLE_APPLICATION_CREDENTIALS # "" /\ env.GOOGLE_CLIENT_SECRETS # ""
    /\ \A g \in Getters :
          /\ once[g].valid /\ once[g].result.token = NoToken
          /\ hist.per[g].tokReads = 0 /\ hist.per[g].credReads = 1

C26_ExchangeOnlyIfPrefixOrConfirmed ==
    /\ [](\A c \in Callers :
            LET h == hist.per[getter[c]] IN
            /\ pc[c] = "manual_exchange" =>
                  /\ authCode[c] # ""
                  /\ HasPrefix(authCode[c], "4/") \/ h.answer \in {"y", "Y"}
                  /\ HasPrefix(authCode[c], "4/") <=> h.answer = ""
            /\ (pc[c] = "manual_confirm" /\ h.answer # "") =>
                  /\ h.answer \notin {"y", "Y"}
                  /\ ~alive /\ exitMsg = "Authorization cancelled by user"
                  /\ h.exchanges = 0)
    /\ [][\A g \in Getters :
            (hist'.per[g].exchanges # hist.per[g].exchanges /\ hist.per[g].stdinReads >= 1)
                => \E c \in Callers : getter[c] = g /\ pc[c] = "manual_exchange"]_vars

\* a code without the prefix was confirmed with Y and exchanged for a token
C26_ConfirmedWitness ==
    \E c \in Callers :
        /\ authCode[c] = "abc123" /\ hist.per[getter[c]].answer = "Y"
        /\ hist.per[getter[c]].exchanges = 1 /\ tok[c] = IssuedToken(c)

\* the two reasons of the callback handler, and the error of the listener
StateMismatch == "invalid state parameter"
MissingCode == "authorization code not found"
ListenerError == "callback server error"

\* C27: the handler's error outcome is the state mismatch exactly when the request's
\* state differs from the attempt's, with or without a code, and the missing code
\* exactly when the state is the attempt's and the code is empty; every handler at
\* its send carries the reason that fits its request; and the FAILED report is the
\* callback error followed by the reason that was received
C27_ErrorCarriesReason ==
    [](/\ mux # -1 =>
             \A reqState \in ReqStates(att[mux].state), reqCode \in ReqCodes :
                 LET d == CallbackHandler(reqState, reqCode, att[mux].state) IN
                 /\ (d.ch = "error" /\ d.val = StateMismatch) <=> reqState # att[mux].state
                 /\ (d.ch = "error" /\ d.val = MissingCode)
                       <=> (reqState = att[mux].state /\ reqCode = "")
                 /\ d.ch = "code"
                       <=> (reqState = att[mux].state /\ reqCode # "" /\ d.val = reqCode)
       /\ \A h \in BagToSet(sends) :
             /\ h.ch = "error" => h.val \in {StateMismatch, MissingCode}
             /\ (h.ch = "error" /\ h.val = StateMismatch) <=> ~h.exact
             /\ (h.ch = "error" /\ h.val = MissingCode) => h.exact
       /\ \A c \in Callers :
             /\ att[c].chosen = "error" =>
                   /\ att[c].got \in {StateMismatch, MissingCode, ListenerError}
                   /\ att[c].got = StateMismatch => att[c].badBefore
                   /\ att[c].got = ListenerError => att[c].srv = "exited"
             /\ (att[c].chosen = "error" /\ ~alive /\ pc[c] = "cb_got_error"
                 /\ att[c].shutdown >= 1) =>
                   exitMsg = "OAuth callback error: " \o att[c].got)

\* a request with a wrong state was handled, and the attempt has ended FAILED
\* reporting the state mismatch
C27_MismatchReportedWitness ==
    \E c \in Callers :
        /\ FailedByCallback(c) /\ att[c].got = StateMismatch
        /\ exitMsg = "OAuth callback error: invalid state parameter"
        /\ att[c].badBefore

\* a request with the attempt's state and no code was handled, and the attempt has
\* ended FAILED reporting the missing code
C27_MissingCodeReached ==
    \E c \in Callers :
        /\ FailedByCallback(c) /\ att[c].got = MissingCode
        /\ ~att[c].badBefore

\* the host part of a listen address "host:port" (net.SplitHostPort); empty for
\* ":port", which net.Listen binds on every interface of the machine
RECURSIVE HostOf(_)
HostOf(addr) ==
    IF addr = "" \/ SubSeq(addr, 1, 1) = ":" THEN ""
    ELSE SubSeq(addr, 1, 1) \o HostOf(SubSeq(addr, 2, Len(addr)))

\* C28: in every attempt the bind address of the callback listener has the host
\* 127.0.0.1
C28_ListenerLoopbackOnly ==
    \A c \in Callers :
        att[c].srv # "none" => HostOf(att[c].addr) = "127.0.0.1"

\* values that OAUTH_USE_CALLBACK can be given
CallbackSettings == {"", "1", "true", "0", "false", "TRUE", "True", "yes", " true"}

\* C29: the variant is chosen once, when the load of the token file has failed: the
\* callback server exactly when OAUTH_USE_CALLBACK is "true" or "1" at that moment,
\* the manual flow otherwise, and a caller never changes from one to the other; main
\* in OAuth mode sets the variable to "true" when the token file does not exist and
\* nothing changes it later, so a first run never enters the manual flow
C29_VariantChosenAtFlowStart ==
    /\ [](\A v \in CallbackSettings :
            UseCallback([env EXCEPT !.OAUTH_USE_CALLBACK = v]) <=> v \in {"true", "1"})
    /\ [][\A c \in Callers :
            /\ (pc[c] = "tokload" /\ pc'[c] # "tokload" /\ tokenFile.kind # "json") =>
                  /\ pc'[c] = "cb_setup" <=> env.OAUTH_USE_CALLBACK \in {"true", "1"}
                  /\ pc'[c] = "manual" <=> env.OAUTH_USE_CALLBACK \notin {"true", "1"}
            /\ InCallbackFlow(c) => ~InManualFlow(c)' /\ pc'[c] # "tokload"
            /\ InManualFlow(c) => ~InCallbackFlow(c)' /\ pc'[c] # "tokload"]_vars
    /\ [][IF mainPc = "start" /\ mainPc' # "start"
          THEN env' = IF ModeOf(env) = "OAUTH_CLIENT" /\ tokenFile.kind = "missing"
                      THEN [env EXCEPT !.OAUTH_USE_CALLBACK = "true"]
                      ELSE env
          ELSE env' = env]_vars
    /\ [](env.OAUTH_USE_CALLBACK = "true" =>
            /\ \A c \in Callers : ~InManualFlow(c)
            /\ \A g \in Getters : hist.per[g].stdinReads = 0)
    /\ []((mainPc # "start" /\ ModeOf(env) = "OAUTH_CLIENT" /\ tokenFile.kind = "missing")
            => env.OAUTH_USE_CALLBACK \in {"true", "1"})

\* a first run in HTTP mode with OAUTH_USE_CALLBACK not configured: main has set
\* it, and a tool caller is in the callback flow while the token file does not exist
C29_FirstRunCallbackWitness ==
    /\ httpPort # "" /\ env.OAUTH_USE_CALLBACK = "true" /\ tokenFile.kind = "missing"
    /\ \E c \in ToolCallers : InCallbackFlow(c) /\ att[c].srv = "listening"

\* the outcomes that the handlers of attempt c have sent or are about to send
OutcomesSignalled(c) ==
    att[c].fired.code + att[c].fired.error + BagCardinality(sends)

\* C30: a request to any path other than /oauth/callback sends nothing on the two
\* channels and leaves the attempt, the callers and the process as they are; the
\* outcomes signalled never outnumber the requests to the route
C30_OnlyRouteSignals ==
    /\ [][(nreq' # nreq /\ sends' = sends) =>
            /\ hist'.notFound
            /\ att' = att /\ pc' = pc /\ mux' = mux
            /\ alive' = alive /\ exitMsg' = exitMsg
            /\ tok' = tok /\ tokenFile' = tokenFile /\ once' = once]_vars
    /\ [](mux # -1 =>
            /\ att[mux].srv # "exited" => OutcomesSignalled(mux) <= nreq
            /\ hist.notFound => OutcomesSignalled(mux) <= nreq - 1)

\* requests to another path were all that arrived: the attempt, parked in its
\* select, has been given no outcome
C30_OtherPathWitness ==
    /\ hist.notFound /\ nreq = MaxRequests
    /\ \E c \in Callers :
          /\ pc[c] = "cb_parked" /\ att[c].chosen = "none"
          /\ OutcomesSignalled(c) = 0
          /\ att[c].chan.code = <<>> /\ att[c].chan.error = <<>>

\* the attempt of caller c is over and the program goes on: the select has taken
\* its case and getTokenFromWebWithCallback has returned the token
AttemptReturned(c) ==
    /\ alive /\ att[c].chosen # "none" /\ att[c].authorized
    /\ ~InCallbackFlow(c)

\* a handler goroutine h stands at a send that cannot complete: the buffer of its
\* channel is full and no goroutine waits in the select
BlockedAtSend(h) == mux # -1 /\ BagIn(h, sends) /\ ~CanSend(mux, h.ch)

\* C31: every handler invocation completes its send, for any number and order of
\* requests of one attempt: once the attempt has returned, no handler goroutine
\* stands at a channel send that cannot complete
C31_NoHandlerOutlivesAttempt ==
    [](\A h \in BagToSet(sends) :
          (mux # -1 /\ AttemptReturned(mux)) => ~BlockedAtSend(h))

\* the attempt of caller c has ended FAILED by the error of its listener: the select
\* took the error case with the server goroutine's error, the server was shut down
\* and the process was ended by that case's log.Fatalf
FailedByListener(c) ==
    /\ FailedByCallback(c) /\ att[c].got = ListenerError
    /\ exitMsg = "OAuth callback error: callback server error"
    /\ ListenerDown(c)

OAuthHandle(g) ==
    /\ once[g].valid /\ once[g].result.kind = "handle"
    /\ ~LoadGoogleCredentials(env).UseServiceAccount

\* a token that a request can be authorized with: its access value is not empty
Usable(t) == t.access # ""

\* C33: the token of a handle built in OAuth mode is the token of a successful
\* exchange of this process or a token of the token file with an access value, and
\* a getter whose body read a token file that holds no access value has gone
\* through an authorization flow before its handle was built
C33_HandleBackedByUsableToken ==
    [](\A g \in Getters :
          OAuthHandle(g) =>
              /\ Usable(once[g].result.token)
              /\ \/ /\ hist.per[g].exchanges >= 1
                    /\ once[g].result.token = IssuedToken(once[g].result.by)
                 \/ /\ hist.per[g].loaded /\ hist.per[g].exchanges = 0
                    /\ \E t \in {CachedToken} \cup {IssuedToken(c) : c \in Callers} :
                          SameToken(once[g].result.token, t)
              /\ (hist.per[g].loaded /\ tokenFile = NoAccessFile)
                    => hist.per[g].flows >= 1)

\* main runs in stdio mode and has reached server.ServeStdio
StdioServing == httpPort = "" /\ mainPc = "serving"

\* C34: in stdio mode, when the MCP server starts serving, the file service handle
\* has been built by main's own call; no caller is inside an authorization flow
\* while the server serves; and no step taken while the server serves prints to
\* stdout, reads stdin, starts a listener or starts a flow, the first call of the
\* document getter included
C34_StdioFlowsBeforeServing ==
    /\ [](StdioServing =>
             /\ once["GoogleDriveClient"].done /\ once["GoogleDriveClient"].valid
             /\ once["GoogleDriveClient"].result.kind = "handle"
             /\ once["GoogleDriveClient"].result.by = 0
             /\ \A c \in Callers : ~InCallbackFlow(c) /\ ~InManualFlow(c))
    /\ [][StdioServing =>
             /\ stdout' = stdout
             /\ \A g \in Getters :
                   /\ hist'.per[g].flows = hist.per[g].flows
                   /\ hist'.per[g].urls = hist.per[g].urls
                   /\ hist'.per[g].stdinReads = hist.per[g].stdinReads
                   /\ hist'.per[g].listeners = hist.per[g].listeners
                   /\ hist'.per[g].exchanges = hist.per[g].exchanges]_vars

\* stdio mode, OAuth: main's eager call went through a flow and saved the token; the
\* server serves, and the first call of the document getter has built its handle
\* from the token file without a flow
C34_DocsAfterServingWitness ==
    /\ StdioServing /\ alive
    /\ hist.per["GoogleDriveClient"].flows = 1
    /\ hist.per["GoogleDriveClient"].tokWrites = 1
    /\ once["GoogleDocsClient"].valid
    /\ once["GoogleDocsClient"].result.by \in ToolCallers
    /\ hist.per["GoogleDocsClient"].loaded
    /\ hist.per["GoogleDocsClient"].flows = 0

====
